---- MODULE Spec2Model ----
(***************************************************************************)
(* A model of the retail-demand-forecasting server glue:                   *)
(*   src/lib/config.ts            getConfig (memoized configuration) and   *)
(*                                the forecast-action POST router          *)
(*   src/lib/sagemaker-client.ts  createForecastingJob, getJobStatus,      *)
(*                                deployBestModel, getForecastFromEndpoint,*)
(*                                cleanupSageMakerResources                *)
(* Every `await` of the source is one step of the model: a remote call     *)
(* resolves with what the remote side holds at that moment, or rejects.    *)
(* The remote services (parameter store, AutoML service, endpoint) are the *)
(* environment: they answer, fail and progress nondeterministically.       *)
(***************************************************************************)
EXTENDS Integers, Sequences, FiniteSets, TLC

VARIABLES
  \* ---- process-wide state of config.ts and its environment
  nodeEnv,          \* process.env.NODE_ENV
  ssmParam,         \* text held by the remote parameter store
  cachedConfig,     \* config.ts:19  let cachedConfig
  cacheWrites,      \* history: how often config.ts:56 stored a configuration (not null)
  prevCall,         \* history: the getConfig call completed before lastCall
  lastCall,         \* history: the getConfig call completed last
  clock,            \* Date.now()
  \* ---- the AutoML vendor
  theJob,           \* name of the AutoML job the requests are about
  jobStatus,        \* the vendor's AutoMLJobStatus of theJob
  cands,            \* the vendor's ranked candidate list of theJob
  models,           \* names of model resources that exist
  endpointConfigs,  \* names of endpoint configurations that exist
  endpoints,        \* names of endpoints that exist
  returnedJobs,     \* history: jobName of every successful createForecastingJob
  \* ---- one call chain per request p
  pc,               \* where request p stands
  op,               \* the operation request p runs
  cfg,              \* the local `config` of request p
  cfgHow,           \* history: how the running getConfig call got its value
  seen,             \* getJobStatus: response.AutoMLJobStatus
  listed,           \* history: the candidate list the vendor returned to p
  best,             \* the local `bestCandidate` of request p
  jname,            \* createForecastingJob: the local `jobName`
  calls,            \* history: the vendor calls request p issued, in order
  outcome,          \* how the operation ended: ok or the error thrown
  ret,              \* the value the operation returned
  startStatus,      \* history: jobStatus when request p started
  startCands,       \* history: cands when request p started
  since,            \* createForecastingJob: clock when the pending remote call was sent
  nreq,             \* requests started so far
  \* ---- the forecast-action router (POST)
  rpc, rBody, rAction, rData, rInvoked, rResp, rServed,
  \* ---- getForecastFromEndpoint
  fpc, history, horizon, fInput, fResult, fOutcome

cfgVars == <<nodeEnv, ssmParam, cachedConfig, cacheWrites, prevCall, lastCall, clock>>
vendorVars == <<theJob, jobStatus, cands, models, endpointConfigs, endpoints, returnedJobs>>
procVars == <<pc, op, cfg, cfgHow, seen, listed, best, jname, calls, outcome, ret,
              startStatus, startCands, since, nreq>>
routerVars == <<rpc, rBody, rAction, rData, rInvoked, rResp, rServed>>
fcVars == <<fpc, history, horizon, fInput, fResult, fOutcome>>
vars == <<cfgVars, vendorVars, procVars, routerVars, fcVars>>

(***************************************************************************)
(* Bounds of the model.                                                    *)
(***************************************************************************)
MaxHorizon == 3
MaxMean == 3
MaxRequests == 2
MaxClock == 2
MaxCands == 2
MaxServed == 2

\* JavaScript's null / undefined for optional values: the empty sequence;
\* a present value v is <<v>>.
Nothing == <<>>
Some(v) == <<v>>

(***************************************************************************)
(* getForecastFromEndpoint (sagemaker-client.ts:214-298).                  *)
(* A date string is <<year, month 1..12, day>>; a JavaScript Date is the   *)
(* record [y, m, d] with m = getMonth() in 0..11.  The process runs in UTC *)
(* (local fields = UTC fields), and history dates are valid calendar dates.*)
(***************************************************************************)
IsLeapYear(y) == (y % 4 = 0 /\ y % 100 # 0) \/ y % 400 = 0

\* days of month m (0..11) of year y
DaysInMonth(y, m) ==
  IF m = 1 THEN (IF IsLeapYear(y) THEN 29 ELSE 28)
  ELSE IF m \in {3, 5, 8, 10} THEN 30 ELSE 31

\* new Date(string)
NewDate(s) == [y |-> s[1], m |-> s[2] - 1, d |-> s[3]]

\* date.toISOString(), and the YYYY-MM-DD of prepareInputData
ToISOString(date) == <<date.y, date.m + 1, date.d>>

\* date.setMonth(monthValue), monthValue >= 0: the day of the month is kept, and
\* a day past the end of the target month runs over into the next month.
SetMonth(date, monthValue) ==
  LET y1 == date.y + (monthValue \div 12)
      m1 == monthValue % 12
      dim == DaysInMonth(y1, m1)
  IN  IF date.d <= dim
      THEN [y |-> y1, m |-> m1, d |-> date.d]
      ELSE IF m1 = 11
           THEN [y |-> y1 + 1, m |-> 0, d |-> date.d - dim]
           ELSE [y |-> y1, m |-> m1 + 1, d |-> date.d - dim]

\* prepareInputData: start = dates[0] (undefined for an empty history),
\* target = the actuals with `point.actual || 0`.
PrepareInputData(historicalData, forecastHorizon) ==
  [ start |-> IF Len(historicalData) = 0 THEN Nothing
              ELSE Some(ToISOString(NewDate(historicalData[1].date))),
    target |-> [i \in 1..Len(historicalData) |->
                  IF historicalData[i].actual = Nothing THEN 0
                  ELSE historicalData[i].actual[1]],
    num_samples |-> 50,
    prediction_length |-> forecastHorizon ]

\* convertResponseToDataPoints: one point per element of predictions[0].mean
\* (index is 0-based in the source, i - 1 here).
ConvertResponseToDataPoints(mean, historicalData) ==
  LET lastDate == NewDate(historicalData[Len(historicalData)].date)
  IN  [i \in 1..Len(mean) |->
         [ date |-> ToISOString(SetMonth(lastDate, lastDate.m + (i - 1) + 1)),
           actual |-> Nothing,
           forecast |-> mean[i] ]]

\* ---- the inputs of the forecast check
Years == {2023, 2024}
Days == {1, 15, 28, 29, 30, 31}
HistDates ==
  {s \in Years \X (1..12) \X Days : s[3] <= DaysInMonth(s[1], s[2] - 1)}
Point(date, actual) == [date |-> date, actual |-> actual, forecast |-> Nothing]
Histories ==
  {<<>>}
  \cup {<<Point(s, a)>> : s \in HistDates, a \in {Nothing, Some(12)}}
  \cup {<<Point(<<2022, 12, 1>>, Some(0)), Point(s, a)>> :
          s \in HistDates, a \in {Nothing, Some(12)}}
\* the endpoint's `mean` array of length n
MeanOfLen(n) == [i \in 1..n |-> 10 * i]

ForecastIdle ==
  /\ fpc = "idle" /\ history = <<>> /\ horizon = 0
  /\ fInput = Nothing /\ fResult = <<>> /\ fOutcome = "none"

InitForecastInputs ==
  /\ fpc = "start"
  /\ history \in Histories
  /\ horizon \in 0..MaxHorizon
  /\ fInput = Nothing /\ fResult = <<>> /\ fOutcome = "none"

\* :220-223  the client is built and the payload prepared
ForecastPrepare ==
  /\ fpc = "start"
  /\ fInput' = Some(PrepareInputData(history, horizon))
  /\ fpc' = "invoke"
  /\ UNCHANGED <<history, horizon, fResult, fOutcome>>
  /\ UNCHANGED <<cfgVars, vendorVars, procVars, routerVars>>

\* :226-238  the endpoint answers with a body holding predictions[0].mean of
\* some length, and the body is converted
ForecastInvokeOk ==
  /\ fpc = "invoke"
  /\ \E n \in 0..MaxMean :
       IF Len(history) = 0
       THEN \* historicalData[-1] is undefined: reading .date throws
            /\ fOutcome' = "TypeError"
            /\ fResult' = <<>>
       ELSE /\ fOutcome' = "ok"
            /\ fResult' = ConvertResponseToDataPoints(MeanOfLen(n), history)
  /\ fpc' = "done"
  /\ UNCHANGED <<history, horizon, fInput>>
  /\ UNCHANGED <<cfgVars, vendorVars, procVars, routerVars>>

\* :226-241  the invocation rejects, the body is no JSON, or it holds no
\* predictions[0].mean: the error is rethrown
ForecastInvokeFail ==
  /\ fpc = "invoke"
  /\ \E e \in {"InvocationFailed", "SyntaxError", "TypeError"} : fOutcome' = e
  /\ fResult' = <<>>
  /\ fpc' = "done"
  /\ UNCHANGED <<history, horizon, fInput>>
  /\ UNCHANGED <<cfgVars, vendorVars, procVars, routerVars>>

NextForecast == ForecastPrepare \/ ForecastInvokeOk \/ ForecastInvokeFail

(***************************************************************************)
(* getConfig (config.ts:1-62).                                             *)
(***************************************************************************)
Procs == {1, 2}

\* An AppConfig value; JavaScript's null is NullCfg (the only falsy one).
NullCfg == [kind |-> "null", dataBucket |-> "", sageMakerRoleArn |-> ""]
defaultConfig ==
  [kind |-> "object", dataBucket |-> "retail-forecasting-data-dev",
   sageMakerRoleArn |-> "arn:aws:iam::123456789012:role/SageMakerExecutionRole-dev"]
ConfigA == [kind |-> "object", dataBucket |-> "bucket-a", sageMakerRoleArn |-> "role-a"]
ConfigB == [kind |-> "object", dataBucket |-> "bucket-b", sageMakerRoleArn |-> "role-b"]

\* What the parameter store may hold: nothing (or an empty value), the JSON
\* text of a configuration object, the JSON literal null, or text that is no JSON.
ParamTexts == {"", "{A}", "{B}", "null", "not-json"}

\* JSON.parse(configValue): the value, or a SyntaxError.
JSONParse(text) ==
  CASE text = "{A}"  -> [ok |-> TRUE, val |-> ConfigA]
    [] text = "{B}"  -> [ok |-> TRUE, val |-> ConfigB]
    [] text = "null" -> [ok |-> TRUE, val |-> NullCfg]
    [] OTHER         -> [ok |-> FALSE, val |-> NullCfg]

NoCall == [how |-> "none", val |-> NullCfg, fetched |-> FALSE]

\* where the caller of getConfig goes on
AfterConfig(o) ==
  CASE o = "create" -> "create_upload"
    [] o = "deploy" -> "deploy_list"
    [] OTHER        -> "done"

\* `return v` of getConfig, for the call of request p
ConfigReturns(p, v, how) ==
  /\ cfg' = [cfg EXCEPT ![p] = v]
  /\ pc' = [pc EXCEPT ![p] = AfterConfig(op[p])]
  /\ outcome' = [outcome EXCEPT ![p] = IF op[p] = "getConfig" THEN "ok" ELSE @]
  /\ ret' = [ret EXCEPT ![p] = IF op[p] = "getConfig" THEN Some(v) ELSE @]
  /\ since' = [since EXCEPT ![p] = IF op[p] = "create" THEN clock ELSE @]
  /\ prevCall' = lastCall
  /\ lastCall' = [how |-> how, val |-> v, fetched |-> cfgHow[p] = "fetching"]

\* A variant of WriteCache, for comparison: the parsed value is returned and never stored.
WriteCacheNever(config) ==
  /\ cachedConfig' = cachedConfig
  /\ cacheWrites' = cacheWrites

\* :56  cachedConfig = config
WriteCache(config) ==
  /\ cachedConfig' = config
  /\ cacheWrites' = IF config # NullCfg THEN cacheWrites + 1 ELSE cacheWrites

\* :26-33  the synchronous head of getConfig
GetConfigEnter(p) ==
  /\ pc[p] = "cfg_enter"
  /\ IF cachedConfig # NullCfg
     THEN /\ ConfigReturns(p, cachedConfig, "cache")
          /\ UNCHANGED cfgHow
     ELSE IF nodeEnv # "production"
     THEN /\ ConfigReturns(p, defaultConfig, "dev")
          /\ UNCHANGED cfgHow
     ELSE \* :46  await ssmClient.send(command)
          /\ pc' = [pc EXCEPT ![p] = "cfg_fetch"]
          /\ cfgHow' = [cfgHow EXCEPT ![p] = "fetching"]
          /\ UNCHANGED <<cfg, outcome, ret, since, prevCall, lastCall>>
  /\ UNCHANGED <<nodeEnv, ssmParam, cachedConfig, cacheWrites, clock>>
  /\ UNCHANGED <<op, seen, listed, best, jname, calls, startStatus, startCands, nreq>>
  /\ UNCHANGED <<vendorVars, routerVars, fcVars>>

\* :46-57  the fetch resolves with the parameter's present value
GetConfigFetched(p) ==
  /\ pc[p] = "cfg_fetch"
  /\ LET configValue == ssmParam
         parsed == JSONParse(configValue)
     IN  IF configValue = ""
         THEN /\ ConfigReturns(p, defaultConfig, "empty")
              /\ UNCHANGED <<cachedConfig, cacheWrites>>
         ELSE IF ~parsed.ok
         THEN \* JSON.parse throws: the catch returns the defaults
              /\ ConfigReturns(p, defaultConfig, "error")
              /\ UNCHANGED <<cachedConfig, cacheWrites>>
         ELSE /\ WriteCache(parsed.val)
              /\ ConfigReturns(p, parsed.val, "parsed")
  /\ UNCHANGED <<nodeEnv, ssmParam, clock>>
  /\ UNCHANGED <<op, cfgHow, seen, listed, best, jname, calls, startStatus, startCands, nreq>>
  /\ UNCHANGED <<vendorVars, routerVars, fcVars>>

\* :58-61  the fetch rejects: the catch returns the defaults
GetConfigFetchFailed(p) ==
  /\ pc[p] = "cfg_fetch"
  /\ ConfigReturns(p, defaultConfig, "error")
  /\ UNCHANGED <<nodeEnv, ssmParam, cachedConfig, cacheWrites, clock>>
  /\ UNCHANGED <<op, cfgHow, seen, listed, best, jname, calls, startStatus, startCands, nreq>>
  /\ UNCHANGED <<vendorVars, routerVars, fcVars>>

\* The locals of a request that starts operation o.
Begin(p, o) ==
  /\ op' = [op EXCEPT ![p] = o]
  /\ cfg' = [cfg EXCEPT ![p] = NullCfg]
  /\ cfgHow' = [cfgHow EXCEPT ![p] = "none"]
  /\ seen' = [seen EXCEPT ![p] = Nothing]
  /\ listed' = [listed EXCEPT ![p] = <<>>]
  /\ best' = [best EXCEPT ![p] = Nothing]
  /\ jname' = [jname EXCEPT ![p] = Nothing]
  /\ calls' = [calls EXCEPT ![p] = <<>>]
  /\ outcome' = [outcome EXCEPT ![p] = "none"]
  /\ ret' = [ret EXCEPT ![p] = Nothing]
  /\ startStatus' = [startStatus EXCEPT ![p] = IF o = "none" THEN "InProgress" ELSE jobStatus]
  /\ startCands' = [startCands EXCEPT ![p] = IF o = "none" THEN <<>> ELSE cands]
  /\ since' = [since EXCEPT ![p] = 0]

\* the caller has its answer: the call chain of request p is over
Finish(p) ==
  /\ pc[p] = "done"
  /\ Begin(p, "none")
  /\ pc' = [pc EXCEPT ![p] = "idle"]
  /\ UNCHANGED <<nreq, cfgVars, vendorVars, routerVars, fcVars>>

\* the operator of the parameter store edits the parameter
SsmChange ==
  /\ \E t \in ParamTexts \ {ssmParam} : ssmParam' = t
  /\ UNCHANGED <<nodeEnv, cachedConfig, cacheWrites, prevCall, lastCall, clock>>
  /\ UNCHANGED <<vendorVars, procVars, routerVars, fcVars>>

\* time passes
Tick ==
  /\ clock < MaxClock
  /\ clock' = clock + 1
  /\ UNCHANGED <<nodeEnv, ssmParam, cachedConfig, cacheWrites, prevCall, lastCall>>
  /\ UNCHANGED <<vendorVars, procVars, routerVars, fcVars>>

(***************************************************************************)
(* createForecastingJob (sagemaker-client.ts:19-75).  A remote call that   *)
(* resolves (the upload, the job creation) takes time: the clock has moved *)
(* on by at least one millisecond when it does.                            *)
(***************************************************************************)
JOB_PREFIX == "retail-forecast-"
NoRef == <<>>
Call(cmd, name, ref, ok) == [cmd |-> cmd, name |-> name, ref |-> ref, ok |-> ok]

\* :33  `${JOB_PREFIX}${Date.now()}`
JobNameAt(now) == <<JOB_PREFIX, now>>

\* the operation throws e
Throws(p, e) ==
  /\ outcome' = [outcome EXCEPT ![p] = e]
  /\ ret' = [ret EXCEPT ![p] = Nothing]
  /\ pc' = [pc EXCEPT ![p] = "done"]

StartCreate(p) ==
  /\ nreq < MaxRequests
  /\ pc[p] = "idle"
  /\ Begin(p, "create")
  /\ pc' = [pc EXCEPT ![p] = "cfg_enter"]
  /\ nreq' = nreq + 1
  /\ UNCHANGED <<cfgVars, vendorVars, routerVars, fcVars>>

\* :30-36  the upload resolves, the job name is made from the clock
CreateUploaded(p) ==
  /\ pc[p] = "create_upload"
  /\ clock > since[p]
  /\ jname' = [jname EXCEPT ![p] = Some(JobNameAt(clock))]
  /\ pc' = [pc EXCEPT ![p] = "create_send"]
  /\ since' = [since EXCEPT ![p] = clock]
  /\ UNCHANGED <<op, cfg, cfgHow, seen, listed, best, calls, outcome, ret,
                 startStatus, startCands, nreq>>
  /\ UNCHANGED <<cfgVars, vendorVars, routerVars, fcVars>>

\* :30, :71-74  the upload rejects
CreateUploadFailed(p) ==
  /\ pc[p] = "create_upload"
  /\ Throws(p, "UploadError")
  /\ UNCHANGED <<op, cfg, cfgHow, seen, listed, best, jname, calls,
                 startStatus, startCands, since, nreq>>
  /\ UNCHANGED <<cfgVars, vendorVars, routerVars, fcVars>>

\* :39-70  the job-creation call; reading config.dataBucket of a null config
\* throws before anything is sent
CreateSend(p) ==
  /\ pc[p] = "create_send"
  /\ IF cfg[p] = NullCfg
     THEN /\ Throws(p, "TypeError")
          /\ UNCHANGED <<calls, returnedJobs>>
     ELSE \E ok \in BOOLEAN :
            /\ clock > since[p]
            /\ calls' = [calls EXCEPT ![p] =
                           Append(@, Call("CreateAutoMLJob", jname[p][1], NoRef, ok))]
            /\ IF ok
               THEN /\ outcome' = [outcome EXCEPT ![p] = "ok"]
                    /\ ret' = [ret EXCEPT ![p] = Some([jobName |-> jname[p][1]])]
                    /\ pc' = [pc EXCEPT ![p] = "done"]
                    /\ returnedJobs' = Append(returnedJobs, jname[p][1])
               ELSE /\ Throws(p, "VendorError")
                    /\ UNCHANGED returnedJobs
  /\ UNCHANGED <<op, cfg, cfgHow, seen, listed, best, jname, startStatus, startCands, since, nreq>>
  /\ UNCHANGED <<theJob, jobStatus, cands, models, endpointConfigs, endpoints>>
  /\ UNCHANGED <<cfgVars, routerVars, fcVars>>


(***************************************************************************)
(* The AutoML vendor: the job runs and ends, candidates appear while it    *)
(* runs.  The orchestrator takes no part in these steps.                   *)
(***************************************************************************)
Statuses == {"InProgress", "Completed", "Failed", "Stopping", "Stopped"}
CandPool ==
  {[CandidateName |-> Some("c1")], [CandidateName |-> Some("c2")],
   [CandidateName |-> Nothing]}

VendorProgress ==
  /\ \/ jobStatus = "InProgress" /\ jobStatus' \in {"Completed", "Failed", "Stopping"}
     \/ jobStatus = "Stopping" /\ jobStatus' = "Stopped"
  /\ UNCHANGED <<theJob, cands, models, endpointConfigs, endpoints, returnedJobs>>
  /\ UNCHANGED <<cfgVars, procVars, routerVars, fcVars>>

VendorAddCandidate ==
  /\ jobStatus = "InProgress"
  /\ Len(cands) < MaxCands
  /\ \E c \in CandPool : cands' = Append(cands, c)
  /\ UNCHANGED <<theJob, jobStatus, models, endpointConfigs, endpoints, returnedJobs>>
  /\ UNCHANGED <<cfgVars, procVars, routerVars, fcVars>>

\* one more vendor call in the log of request p
Issue(p, cmd, name, ref, ok) ==
  calls' = [calls EXCEPT ![p] = Append(@, Call(cmd, name, ref, ok))]

\* `candidatesResponse.Candidates?.[0]`
FirstCandidate(list) == IF Len(list) = 0 THEN Nothing ELSE Some(list[1])

(***************************************************************************)
(* getJobStatus (sagemaker-client.ts:80-113).                              *)
(***************************************************************************)
StartPoll(p) ==
  /\ pc[p] = "idle"
  /\ Begin(p, "poll")
  /\ pc' = [pc EXCEPT ![p] = "poll_describe"]
  /\ UNCHANGED <<nreq, cfgVars, vendorVars, routerVars, fcVars>>

\* A variant of MustList, for comparison: candidates are listed for every job that has ended.
MustListEnded(status) == status \in {"Completed", "Failed", "Stopped"}

\* :92  response.AutoMLJobStatus === "Completed"
MustList(status) == status = "Completed"

\* :84-92, :102-108  the job is described
PollDescribed(p) ==
  /\ pc[p] = "poll_describe"
  /\ Issue(p, "DescribeAutoMLJob", theJob, NoRef, TRUE)
  /\ seen' = [seen EXCEPT ![p] = Some(jobStatus)]
  /\ IF MustList(jobStatus)
     THEN /\ pc' = [pc EXCEPT ![p] = "poll_list"]
          /\ UNCHANGED <<outcome, ret>>
     ELSE /\ pc' = [pc EXCEPT ![p] = "done"]
          /\ outcome' = [outcome EXCEPT ![p] = "ok"]
          /\ ret' = [ret EXCEPT ![p] =
                       Some([jobName |-> theJob, status |-> jobStatus,
                             bestCandidate |-> Nothing])]
  /\ UNCHANGED <<op, cfg, cfgHow, listed, best, jname, startStatus, startCands, since, nreq>>
  /\ UNCHANGED <<cfgVars, vendorVars, routerVars, fcVars>>

\* :84, :109-112
PollDescribeFailed(p) ==
  /\ pc[p] = "poll_describe"
  /\ Issue(p, "DescribeAutoMLJob", theJob, NoRef, FALSE)
  /\ Throws(p, "VendorError")
  /\ UNCHANGED <<op, cfg, cfgHow, seen, listed, best, jname, startStatus, startCands, since, nreq>>
  /\ UNCHANGED <<cfgVars, vendorVars, routerVars, fcVars>>

\* :93-108  the candidates are listed
PollListed(p) ==
  /\ pc[p] = "poll_list"
  /\ Issue(p, "ListCandidatesForAutoMLJob", theJob, NoRef, TRUE)
  /\ listed' = [listed EXCEPT ![p] = cands]
  /\ best' = [best EXCEPT ![p] = FirstCandidate(cands)]
  /\ pc' = [pc EXCEPT ![p] = "done"]
  /\ outcome' = [outcome EXCEPT ![p] = "ok"]
  /\ ret' = [ret EXCEPT ![p] =
               Some([jobName |-> theJob, status |-> seen[p][1],
                     bestCandidate |-> FirstCandidate(cands)])]
  /\ UNCHANGED <<op, cfg, cfgHow, seen, jname, startStatus, startCands, since, nreq>>
  /\ UNCHANGED <<cfgVars, vendorVars, routerVars, fcVars>>

\* :93, :109-112
PollListFailed(p) ==
  /\ pc[p] = "poll_list"
  /\ Issue(p, "ListCandidatesForAutoMLJob", theJob, NoRef, FALSE)
  /\ Throws(p, "VendorError")
  /\ UNCHANGED <<op, cfg, cfgHow, seen, listed, best, jname, startStatus, startCands, since, nreq>>
  /\ UNCHANGED <<cfgVars, vendorVars, routerVars, fcVars>>

(***************************************************************************)
(* deployBestModel (sagemaker-client.ts:118-183).                          *)
(***************************************************************************)
\* A variant of ModelName, for comparison: the suffix of the configuration's name.
ModelNameAsConfig(jobName) == <<jobName, "-config">>

\* :136, :150, :166
ModelName(jobName) == <<jobName, "-model">>
EndpointConfigName(jobName) == <<jobName, "-config">>
EndpointName(jobName) == <<jobName, "-endpoint">>

StartDeploy(p) ==
  /\ nreq < MaxRequests
  /\ pc[p] = "idle"
  /\ Begin(p, "deploy")
  /\ pc' = [pc EXCEPT ![p] = "cfg_enter"]
  /\ nreq' = nreq + 1
  /\ UNCHANGED <<cfgVars, vendorVars, routerVars, fcVars>>

\* :131  !bestCandidate || !bestCandidate.CandidateName
NoCandidate(b) == b = Nothing \/ b[1].CandidateName = Nothing

\* :124-133  the candidates are listed and the first one is taken
DeployListed(p) ==
  /\ pc[p] = "deploy_list"
  /\ Issue(p, "ListCandidatesForAutoMLJob", theJob, NoRef, TRUE)
  /\ listed' = [listed EXCEPT ![p] = cands]
  /\ best' = [best EXCEPT ![p] = FirstCandidate(cands)]
  /\ IF NoCandidate(FirstCandidate(cands))
     THEN Throws(p, "NoCandidates")
     ELSE /\ pc' = [pc EXCEPT ![p] = "deploy_model"]
          /\ UNCHANGED <<outcome, ret>>
  /\ UNCHANGED <<op, cfg, cfgHow, seen, jname, startStatus, startCands, since, nreq>>
  /\ UNCHANGED <<cfgVars, vendorVars, routerVars, fcVars>>

\* :124, :179-182
DeployListFailed(p) ==
  /\ pc[p] = "deploy_list"
  /\ Issue(p, "ListCandidatesForAutoMLJob", theJob, NoRef, FALSE)
  /\ Throws(p, "VendorError")
  /\ UNCHANGED <<op, cfg, cfgHow, seen, listed, best, jname, startStatus, startCands, since, nreq>>
  /\ UNCHANGED <<cfgVars, vendorVars, routerVars, fcVars>>

\* A variant of DeployCatch, for comparison: what the call created so far is deleted again.
DeployCatchRollback(p) ==
  /\ Throws(p, "VendorError")
  /\ models' = models \ {ModelName(theJob)}
  /\ endpointConfigs' = endpointConfigs \ {EndpointConfigName(theJob)}
  /\ endpoints' = endpoints

\* :179-182  a creation call rejected: the error is logged and rethrown
DeployCatch(p) ==
  /\ Throws(p, "VendorError")
  /\ UNCHANGED <<models, endpointConfigs, endpoints>>

\* :136-147  the model; reading config.sageMakerRoleArn of a null config
\* throws before anything is sent
DeployCreateModel(p) ==
  /\ pc[p] = "deploy_model"
  /\ IF cfg[p] = NullCfg
     THEN /\ Throws(p, "TypeError")
          /\ UNCHANGED <<calls, models, endpointConfigs, endpoints>>
     ELSE \E ok \in BOOLEAN :
            /\ Issue(p, "CreateModel", ModelName(theJob), best[p], ok)
            /\ IF ok
               THEN /\ models' = models \cup {ModelName(theJob)}
                    /\ pc' = [pc EXCEPT ![p] = "deploy_config"]
                    /\ UNCHANGED <<outcome, ret, endpointConfigs, endpoints>>
               ELSE DeployCatch(p)
  /\ UNCHANGED <<op, cfg, cfgHow, seen, listed, best, jname, startStatus, startCands, since, nreq>>
  /\ UNCHANGED <<theJob, jobStatus, cands, returnedJobs>>
  /\ UNCHANGED <<cfgVars, routerVars, fcVars>>

\* :150-163  the endpoint configuration, with the model as its one variant
DeployCreateEndpointConfig(p) ==
  /\ pc[p] = "deploy_config"
  /\ \E ok \in BOOLEAN :
       /\ Issue(p, "CreateEndpointConfig", EndpointConfigName(theJob),
                Some(ModelName(theJob)), ok)
       /\ IF ok
          THEN /\ endpointConfigs' = endpointConfigs \cup {EndpointConfigName(theJob)}
               /\ pc' = [pc EXCEPT ![p] = "deploy_endpoint"]
               /\ UNCHANGED <<outcome, ret, models, endpoints>>
          ELSE DeployCatch(p)
  /\ UNCHANGED <<op, cfg, cfgHow, seen, listed, best, jname, startStatus, startCands, since, nreq>>
  /\ UNCHANGED <<theJob, jobStatus, cands, returnedJobs>>
  /\ UNCHANGED <<cfgVars, routerVars, fcVars>>

\* :166-178  the endpoint, bound to the configuration; the names are returned
DeployCreateEndpoint(p) ==
  /\ pc[p] = "deploy_endpoint"
  /\ \E ok \in BOOLEAN :
       /\ Issue(p, "CreateEndpoint", EndpointName(theJob),
                Some(EndpointConfigName(theJob)), ok)
       /\ IF ok
          THEN /\ endpoints' = endpoints \cup {EndpointName(theJob)}
               /\ pc' = [pc EXCEPT ![p] = "done"]
               /\ outcome' = [outcome EXCEPT ![p] = "ok"]
               /\ ret' = [ret EXCEPT ![p] =
                            Some([modelName |-> ModelName(theJob),
                                  endpointConfigName |-> EndpointConfigName(theJob),
                                  endpointName |-> EndpointName(theJob)])]
               /\ UNCHANGED <<models, endpointConfigs>>
          ELSE DeployCatch(p)
  /\ UNCHANGED <<op, cfg, cfgHow, seen, listed, best, jname, startStatus, startCands, since, nreq>>
  /\ UNCHANGED <<theJob, jobStatus, cands, returnedJobs>>
  /\ UNCHANGED <<cfgVars, routerVars, fcVars>>

(***************************************************************************)
(* cleanupSageMakerResources (sagemaker-client.ts:303-336), called with    *)
(* the three names deployBestModel returns for the job.                    *)
(***************************************************************************)
StartCleanup(p) ==
  /\ pc[p] = "idle"
  /\ Begin(p, "cleanup")
  /\ pc' = [pc EXCEPT ![p] = "cleanup_endpoint"]
  /\ UNCHANGED <<nreq, cfgVars, vendorVars, routerVars, fcVars>>

\* A variant of CleanupCatch, for comparison: the failure is skipped and the next deletion tried.
CleanupCatchContinues(p, next) ==
  /\ pc' = [pc EXCEPT ![p] = next]
  /\ outcome' = [outcome EXCEPT ![p] = IF next = "done" THEN "VendorError" ELSE @]
  /\ UNCHANGED ret

\* :332-335  a deletion call rejected: the error is logged and rethrown
\* (next is where the call chain would have gone on)
CleanupCatch(p, next) == Throws(p, "VendorError")

\* :308-312
CleanupDeleteEndpoint(p) ==
  /\ pc[p] = "cleanup_endpoint"
  /\ \E ok \in BOOLEAN :
       /\ Issue(p, "DeleteEndpoint", EndpointName(theJob), NoRef, ok)
       /\ IF ok
          THEN /\ endpoints' = endpoints \ {EndpointName(theJob)}
               /\ pc' = [pc EXCEPT ![p] = "cleanup_config"]
               /\ UNCHANGED <<outcome, ret>>
          ELSE /\ CleanupCatch(p, "cleanup_config")
               /\ UNCHANGED endpoints
  /\ UNCHANGED <<op, cfg, cfgHow, seen, listed, best, jname, startStatus, startCands, since, nreq>>
  /\ UNCHANGED <<theJob, jobStatus, cands, models, endpointConfigs, returnedJobs>>
  /\ UNCHANGED <<cfgVars, routerVars, fcVars>>

\* :315-319
CleanupDeleteEndpointConfig(p) ==
  /\ pc[p] = "cleanup_config"
  /\ \E ok \in BOOLEAN :
       /\ Issue(p, "DeleteEndpointConfig", EndpointConfigName(theJob), NoRef, ok)
       /\ IF ok
          THEN /\ endpointConfigs' = endpointConfigs \ {EndpointConfigName(theJob)}
               /\ pc' = [pc EXCEPT ![p] = "cleanup_model"]
               /\ UNCHANGED <<outcome, ret>>
          ELSE /\ CleanupCatch(p, "cleanup_model")
               /\ UNCHANGED endpointConfigs
  /\ UNCHANGED <<op, cfg, cfgHow, seen, listed, best, jname, startStatus, startCands, since, nreq>>
  /\ UNCHANGED <<theJob, jobStatus, cands, models, endpoints, returnedJobs>>
  /\ UNCHANGED <<cfgVars, routerVars, fcVars>>

\* :322-331
CleanupDeleteModel(p) ==
  /\ pc[p] = "cleanup_model"
  /\ \E ok \in BOOLEAN :
       /\ Issue(p, "DeleteModel", ModelName(theJob), NoRef, ok)
       /\ IF ok
          THEN /\ models' = models \ {ModelName(theJob)}
               /\ pc' = [pc EXCEPT ![p] = "done"]
               /\ outcome' = [outcome EXCEPT ![p] = "ok"]
               /\ ret' = [ret EXCEPT ![p] = Some([success |-> TRUE])]
          ELSE /\ CleanupCatch(p, "done")
               /\ UNCHANGED models
  /\ UNCHANGED <<op, cfg, cfgHow, seen, listed, best, jname, startStatus, startCands, since, nreq>>
  /\ UNCHANGED <<theJob, jobStatus, cands, endpointConfigs, endpoints, returnedJobs>>
  /\ UNCHANGED <<cfgVars, routerVars, fcVars>>

(***************************************************************************)
(* The forecast-action router, POST (config.ts:64-135).  The operation it  *)
(* awaits resolves or rejects; the operations themselves are modelled      *)
(* above.                                                                  *)
(***************************************************************************)
KnownActions ==
  {"create_job", "get_job_status", "deploy_model", "get_endpoint_status",
   "get_forecast", "cleanup_resources", "get_upload_url"}

\* A variant of OpOf, for comparison: two cases of the switch call each other's operation.
OpOfSwapped(action) ==
  CASE action = "create_job"          -> "createForecastingJob"
    [] action = "get_job_status"      -> "deployBestModel"
    [] action = "deploy_model"        -> "getJobStatus"
    [] action = "get_endpoint_status" -> "getEndpointStatus"
    [] action = "get_forecast"        -> "getForecastFromEndpoint"
    [] action = "cleanup_resources"   -> "cleanupSageMakerResources"
    [] action = "get_upload_url"      -> "getPresignedUploadUrl"
    [] OTHER                          -> "none"

\* :79-120  the operation each case of the switch calls
OpOf(action) ==
  CASE action = "create_job"          -> "createForecastingJob"
    [] action = "get_job_status"      -> "getJobStatus"
    [] action = "deploy_model"        -> "deployBestModel"
    [] action = "get_endpoint_status" -> "getEndpointStatus"
    [] action = "get_forecast"        -> "getForecastFromEndpoint"
    [] action = "cleanup_resources"   -> "cleanupSageMakerResources"
    [] action = "get_upload_url"      -> "getPresignedUploadUrl"
    [] OTHER                          -> "none"

\* NextResponse.json(...): thrown names what was thrown on the way, if anything
Response(status, error, details, thrown) ==
  Some([status |-> status, error |-> error, details |-> details, thrown |-> thrown])

\* :125-133  the catch of POST
Caught(thrown) == Response(500, "Failed to process your request", TRUE, thrown)

\* A request arrives.  Its body is no JSON, the JSON null, or an object whose
\* action is a known one, another one or missing and whose data is an object,
\* null or missing.
RouterReceive ==
  /\ rpc = "idle"
  /\ rServed < MaxServed
  /\ \E b \in {"invalid", "null", "object"} :
       /\ rBody' = b
       /\ IF b = "object"
          THEN /\ rAction' \in KnownActions \cup {"bogus", "undefined"}
               /\ rData' \in {"object", "null", "undefined"}
          ELSE /\ rAction' = "none"
               /\ rData' = "none"
  /\ rpc' = "json"
  /\ rInvoked' = <<>>
  /\ rResp' = Nothing
  /\ UNCHANGED rServed
  /\ UNCHANGED <<cfgVars, vendorVars, procVars, fcVars>>

\* :77-123  request.json() settles, the body is destructured, the switch runs
RouterDispatch ==
  /\ rpc = "json"
  /\ IF rBody = "invalid"
     THEN \* request.json() rejects
          /\ rResp' = Caught("SyntaxError")
          /\ rpc' = "responded"
          /\ UNCHANGED rInvoked
     ELSE IF rBody = "null"
     THEN \* const { action, data } = null
          /\ rResp' = Caught("TypeError")
          /\ rpc' = "responded"
          /\ UNCHANGED rInvoked
     ELSE IF rAction \notin KnownActions
     THEN \* :122-123  default
          /\ rResp' = Response(400, "Invalid action", FALSE, "none")
          /\ rpc' = "responded"
          /\ UNCHANGED rInvoked
     ELSE IF rData # "object"
     THEN \* const { ... } = data, with data null or undefined
          /\ rResp' = Caught("TypeError")
          /\ rpc' = "responded"
          /\ UNCHANGED rInvoked
     ELSE /\ rInvoked' = Append(rInvoked, OpOf(rAction))
          /\ rpc' = "op"
          /\ UNCHANGED rResp
  /\ UNCHANGED <<rBody, rAction, rData, rServed>>
  /\ UNCHANGED <<cfgVars, vendorVars, procVars, fcVars>>

\* the awaited operation resolves: its result is the response
RouterOpResolved ==
  /\ rpc = "op"
  /\ rResp' = Response(200, "", FALSE, "none")
  /\ rpc' = "responded"
  /\ UNCHANGED <<rBody, rAction, rData, rInvoked, rServed>>
  /\ UNCHANGED <<cfgVars, vendorVars, procVars, fcVars>>

\* the awaited operation rejects
RouterOpRejected ==
  /\ rpc = "op"
  /\ rResp' = Caught("OperationError")
  /\ rpc' = "responded"
  /\ UNCHANGED <<rBody, rAction, rData, rInvoked, rServed>>
  /\ UNCHANGED <<cfgVars, vendorVars, procVars, fcVars>>

\* the response is sent
RouterDone ==
  /\ rpc = "responded"
  /\ rpc' = "idle"
  /\ rServed' = rServed + 1
  /\ UNCHANGED <<rBody, rAction, rData, rInvoked, rResp>>
  /\ UNCHANGED <<cfgVars, vendorVars, procVars, fcVars>>

(***************************************************************************)
(* Initial states.                                                         *)
(***************************************************************************)
InitEnv ==
  /\ nodeEnv \in {"production", "development"}
  /\ ssmParam \in ParamTexts
  /\ cachedConfig = NullCfg
  /\ cacheWrites = 0
  /\ prevCall = NoCall
  /\ lastCall = NoCall
  /\ clock = 0

InitProcs ==
  /\ pc = [p \in Procs |-> "idle"]
  /\ op = [p \in Procs |-> "none"]
  /\ cfg = [p \in Procs |-> NullCfg]
  /\ cfgHow = [p \in Procs |-> "none"]
  /\ seen = [p \in Procs |-> Nothing]
  /\ listed = [p \in Procs |-> <<>>]
  /\ best = [p \in Procs |-> Nothing]
  /\ jname = [p \in Procs |-> Nothing]
  /\ calls = [p \in Procs |-> <<>>]
  /\ outcome = [p \in Procs |-> "none"]
  /\ ret = [p \in Procs |-> Nothing]
  /\ startStatus = [p \in Procs |-> "InProgress"]
  /\ startCands = [p \in Procs |-> <<>>]
  /\ since = [p \in Procs |-> 0]
  /\ nreq = 0

JobNames == {<<JOB_PREFIX, 1>>, <<JOB_PREFIX, 2>>}

InitVendor ==
  /\ theJob \in JobNames
  /\ jobStatus = "InProgress"
  /\ cands = <<>>
  /\ models = {}
  /\ endpointConfigs = {}
  /\ endpoints = {}
  /\ returnedJobs = <<>>

OneJob == theJob = <<JOB_PREFIX, 1>>

RouterIdle ==
  /\ rpc = "idle" /\ rBody = "none" /\ rAction = "none" /\ rData = "none"
  /\ rInvoked = <<>> /\ rResp = Nothing /\ rServed = 0

(***************************************************************************)
(* SpecConfig: one caller calls getConfig() MaxRequests times, one call    *)
(* after the other, while the parameter store may be edited.               *)
(***************************************************************************)
StartNextGetConfig(p) ==
  /\ nreq < MaxRequests
  /\ pc[p] = "idle"
  /\ Begin(p, "getConfig")
  /\ pc' = [pc EXCEPT ![p] = "cfg_enter"]
  /\ nreq' = nreq + 1
  /\ UNCHANGED <<cfgVars, vendorVars, routerVars, fcVars>>

InitConfig == InitEnv /\ InitProcs /\ InitVendor /\ OneJob /\ RouterIdle /\ ForecastIdle

NextConfig ==
  \/ StartNextGetConfig(1)
  \/ GetConfigEnter(1)
  \/ GetConfigFetched(1)
  \/ GetConfigFetchFailed(1)
  \/ Finish(1)
  \/ SsmChange

SpecConfig == InitConfig /\ [][NextConfig]_vars

(***************************************************************************)
(* SpecSubmit: the requests of Procs run createForecastingJob concurrently *)
(* in one process; their steps interleave at every await.                  *)
(***************************************************************************)
NextSubmit ==
  \/ \E p \in Procs :
       \/ StartCreate(p)
       \/ GetConfigEnter(p)
       \/ GetConfigFetched(p)
       \/ GetConfigFetchFailed(p)
       \/ CreateUploaded(p)
       \/ CreateUploadFailed(p)
       \/ CreateSend(p)
       \/ Finish(p)
  \/ SsmChange
  \/ Tick

SpecSubmit == InitConfig /\ [][NextSubmit]_vars

(***************************************************************************)
(* SpecForecast: getForecastFromEndpoint on every history and horizon of   *)
(* the bounds.                                                             *)
(***************************************************************************)
InitForecast ==
  /\ InitEnv /\ nodeEnv = "production" /\ ssmParam = ""
  /\ InitProcs /\ InitVendor /\ OneJob /\ RouterIdle /\ InitForecastInputs

SpecForecast == InitForecast /\ [][NextForecast]_vars


(***************************************************************************)
(* Spec: one client polls, deploys and cleans up one job, one request      *)
(* after the other, while the vendor's job runs.                           *)
(***************************************************************************)
Init ==
  /\ InitEnv /\ ssmParam \in {"{A}", "null"}
  /\ InitProcs /\ InitVendor /\ RouterIdle /\ ForecastIdle

Next ==
  \/ StartPoll(1)
  \/ PollDescribed(1)
  \/ PollDescribeFailed(1)
  \/ PollListed(1)
  \/ PollListFailed(1)
  \/ StartDeploy(1)
  \/ GetConfigEnter(1)
  \/ GetConfigFetched(1)
  \/ GetConfigFetchFailed(1)
  \/ DeployListed(1)
  \/ DeployListFailed(1)
  \/ DeployCreateModel(1)
  \/ DeployCreateEndpointConfig(1)
  \/ DeployCreateEndpoint(1)
  \/ StartCleanup(1)
  \/ CleanupDeleteEndpoint(1)
  \/ CleanupDeleteEndpointConfig(1)
  \/ CleanupDeleteModel(1)
  \/ Finish(1)
  \/ VendorProgress
  \/ VendorAddCandidate

Spec == Init /\ [][Next]_vars


(***************************************************************************)
(* SpecRouter: the router serves MaxServed requests.                       *)
(***************************************************************************)
InitRouter ==
  /\ InitEnv /\ nodeEnv = "production" /\ ssmParam = ""
  /\ InitProcs /\ InitVendor /\ OneJob /\ RouterIdle /\ ForecastIdle

NextRouter ==
  \/ RouterReceive
  \/ RouterDispatch
  \/ RouterOpResolved
  \/ RouterOpRejected
  \/ RouterDone

SpecRouter == InitRouter /\ [][NextRouter]_vars


(***************************************************************************)
(* The claims.                                                             *)
(***************************************************************************)
CreateCmds == {"CreateModel", "CreateEndpointConfig", "CreateEndpoint"}
DeleteCmds == {"DeleteEndpoint", "DeleteEndpointConfig", "DeleteModel"}
Issued(p, cmds) == {i \in 1..Len(calls[p]) : calls[p][i].cmd \in cmds}
AtEnd(p, o) == pc[p] = "done" /\ op[p] = o
\* every call of request p but the last one succeeded
OnlyLastMayFail(p) == \A i \in 1..Len(calls[p]) - 1 : calls[p][i].ok

\* C1: deployBestModel for a job that is not Completed, or that has no
\* candidate, fails with the no-candidate error (or with the vendor's error
\* when the listing call itself is rejected) and issues no creation call.  The
\* job is taken in the state it kept throughout the invocation.
C1_DeployRefusesUnfinishedJob ==
  ( /\ AtEnd(1, "deploy")
    /\ startStatus[1] = jobStatus /\ startCands[1] = cands
    /\ (jobStatus # "Completed" \/ cands = <<>>) )
  => /\ Issued(1, CreateCmds) = {}
     /\ \/ outcome[1] = "NoCandidates"
        \/ outcome[1] = "VendorError" /\ ~calls[1][Len(calls[1])].ok

\* the count of calendar months up to the month of date string s
MonthIndex(s) == s[1] * 12 + s[2]
\* date string s lies before date string t
DateBefore(s, t) ==
  \/ s[1] < t[1]
  \/ s[1] = t[1] /\ s[2] < t[2]
  \/ s[1] = t[1] /\ s[2] = t[2] /\ s[3] < t[3]

\* C2: for a non-empty history, the points a forecast returns are dated one
\* calendar month apart: point i (0-based) lies in the (i+1)-th calendar month
\* after the month of the last historical date, and the dates increase
\* strictly from the last historical date on.  This is the claim for the
\* endpoints that answer with exactly `horizon` values; for the others the
\* count of points differs from `horizon` as well.
C2_ForecastMonthly ==
  (fpc = "done" /\ fOutcome = "ok" /\ Len(history) > 0 /\ Len(fResult) = horizon)
  => LET last == history[Len(history)].date
     IN  /\ \A i \in 1..Len(fResult) :
              /\ MonthIndex(fResult[i].date) = MonthIndex(last) + i
              /\ DateBefore(last, fResult[i].date)
              /\ i > 1 => DateBefore(fResult[i - 1].date, fResult[i].date)

CleanupOrder(j) ==
  << Call("DeleteEndpoint", <<j, "-endpoint">>, NoRef, TRUE),
     Call("DeleteEndpointConfig", <<j, "-config">>, NoRef, TRUE),
     Call("DeleteModel", <<j, "-model">>, NoRef, TRUE) >>

\* C4: cleanup issues DeleteEndpoint, DeleteEndpointConfig, DeleteModel in this
\* order, each only after every earlier one succeeded; a rejected deletion is
\* the last call of the invocation, which then ends in an error and not in the
\* success acknowledgment.
C4_CleanupOrder ==
  op[1] = "cleanup" =>
    /\ Len(calls[1]) <= 3
    /\ \A i \in 1..Len(calls[1]) :
         /\ calls[1][i].cmd = CleanupOrder(theJob)[i].cmd
         /\ calls[1][i].name = CleanupOrder(theJob)[i].name
    /\ OnlyLastMayFail(1)
    /\ pc[1] # "done" => \A i \in 1..Len(calls[1]) : calls[1][i].ok
    /\ pc[1] = "done" =>
         /\ outcome[1] = "ok" <=> calls[1] = CleanupOrder(theJob)
         /\ outcome[1] = "ok" => ret[1] = Some([success |-> TRUE])
         /\ outcome[1] # "ok" =>
              /\ outcome[1] = "VendorError"
              /\ ~calls[1][Len(calls[1])].ok
              /\ ret[1] = Nothing

\* the endpoint is deleted, the deletion of its configuration is rejected,
\* and the model is never tried and still exists
C4_Witness ==
  /\ AtEnd(1, "cleanup")
  /\ Len(calls[1]) = 2 /\ calls[1][1].ok /\ ~calls[1][2].ok
  /\ <<theJob, "-endpoint">> \notin endpoints
  /\ <<theJob, "-model">> \in models

\* C5: a successful deployBestModel(jobName) issued exactly the creation calls
\* of model <jobName>-model, configuration <jobName>-config referencing that
\* model, endpoint <jobName>-endpoint referencing that configuration, in this
\* order and each after the previous one succeeded, and returns these three
\* names, which are built from jobName alone.
C5_DeployOrder ==
  /\ op[1] = "deploy" => OnlyLastMayFail(1)
  /\ (AtEnd(1, "deploy") /\ outcome[1] = "ok") =>
       /\ calls[1] =
            << Call("ListCandidatesForAutoMLJob", theJob, NoRef, TRUE),
               Call("CreateModel", <<theJob, "-model">>, Some(listed[1][1]), TRUE),
               Call("CreateEndpointConfig", <<theJob, "-config">>,
                    Some(<<theJob, "-model">>), TRUE),
               Call("CreateEndpoint", <<theJob, "-endpoint">>,
                    Some(<<theJob, "-config">>), TRUE) >>
       /\ ret[1] = Some([modelName |-> <<theJob, "-model">>,
                         endpointConfigName |-> <<theJob, "-config">>,
                         endpointName |-> <<theJob, "-endpoint">>])

\* the second deployment of the same job succeeds
C5_Witness ==
  /\ AtEnd(1, "deploy") /\ outcome[1] = "ok" /\ nreq = 2
  /\ theJob = <<JOB_PREFIX, 2>>

\* the resource that creation call c names exists at the vendor
Exists(c) ==
  CASE c.cmd = "CreateModel"          -> c.name \in models
    [] c.cmd = "CreateEndpointConfig" -> c.name \in endpointConfigs
    [] c.cmd = "CreateEndpoint"       -> c.name \in endpoints
    [] OTHER                          -> TRUE

\* C6: a deployBestModel that ends in an error returns nothing, issued no call
\* after the rejected one and no deletion call, and every resource one of its
\* creation calls created still exists when it returns.
C6_DeployNoRollback ==
  /\ op[1] = "deploy" => Issued(1, DeleteCmds) = {}
  /\ (AtEnd(1, "deploy") /\ Issued(1, CreateCmds) # {}
        /\ ~calls[1][Len(calls[1])].ok) =>
       /\ outcome[1] = "VendorError"
       /\ ret[1] = Nothing
       /\ OnlyLastMayFail(1)
       /\ \A i \in 1..Len(calls[1]) : calls[1][i].ok => Exists(calls[1][i])

\* the endpoint's creation is rejected after the model and the configuration
\* were created: both exist, the endpoint does not
C6_Witness ==
  /\ AtEnd(1, "deploy") /\ outcome[1] = "VendorError"
  /\ Len(calls[1]) = 4 /\ ~calls[1][4].ok
  /\ <<theJob, "-model">> \in models
  /\ <<theJob, "-config">> \in endpointConfigs
  /\ <<theJob, "-endpoint">> \notin endpoints

\* what getJobStatus called and returned
C7_PollSnapshot ==
  op[1] = "poll" =>
    /\ Issued(1, CreateCmds \cup DeleteCmds) = {}
    /\ Issued(1, {"ListCandidatesForAutoMLJob"}) # {} => seen[1] = Some("Completed")
    /\ (pc[1] = "done" /\ seen[1] # Nothing) =>
         (Issued(1, {"ListCandidatesForAutoMLJob"}) # {} <=> seen[1] = Some("Completed"))
    /\ (pc[1] = "done" /\ outcome[1] = "ok") =>
         LET r == ret[1][1]
         IN  /\ r.status = seen[1][1]
             /\ r.bestCandidate # Nothing <=> (r.status = "Completed" /\ listed[1] # <<>>)
             /\ r.bestCandidate # Nothing => r.bestCandidate = Some(listed[1][1])
\* a step of getJobStatus that calls the vendor changes nothing there
C7_PollReadOnly ==
  (op[1] = "poll" /\ calls'[1] # calls[1]) =>
    UNCHANGED <<jobStatus, cands, models, endpointConfigs, endpoints>>

\* C7: getJobStatus lists the candidates if and only if the status it fetched
\* is Completed; the snapshot it returns has a best candidate if and only if
\* that status is Completed and the vendor returned at least one candidate,
\* and it is the first one returned; it issues no creation and no deletion
\* call, and its steps leave the vendor's job and resources as they are.
C7_Poll == []C7_PollSnapshot /\ [][C7_PollReadOnly]_vars

\* a completed job with two different candidates: the first one is the best
C7_Witness ==
  /\ AtEnd(1, "poll") /\ outcome[1] = "ok"
  /\ Len(listed[1]) = 2 /\ listed[1][1] # listed[1][2]
  /\ ret[1][1].bestCandidate = Some(listed[1][1])

\* C8: no two successful createForecastingJob invocations return the same
\* jobName.
C8_JobNamesUnique ==
  \A i, j \in 1..Len(returnedJobs) : i # j => returnedJobs[i] # returnedJobs[j]

\* C9 as claimed: a request with none of the seven actions gets 400 "Invalid
\* action" and no operation is invoked; a request with a known action invokes
\* exactly the operation of that action; whatever is thrown gets 500 with an
\* error and details.
C9_RouterAsClaimed ==
  (rpc = "responded" /\ rBody = "object") =>
    LET r == rResp[1]
    IN  /\ rAction \notin KnownActions =>
             (r.status = 400 /\ r.error = "Invalid action" /\ rInvoked = <<>>)
        /\ rAction \in KnownActions => rInvoked = <<OpOf(rAction)>>
        /\ r.thrown # "none" => (r.status = 500 /\ r.details)

\* the operation the interface documents for each action
KnownOps ==
  [a \in KnownActions |->
     CASE a = "create_job"          -> "createForecastingJob"
       [] a = "get_job_status"      -> "getJobStatus"
       [] a = "deploy_model"        -> "deployBestModel"
       [] a = "get_endpoint_status" -> "getEndpointStatus"
       [] a = "get_forecast"        -> "getForecastFromEndpoint"
       [] a = "cleanup_resources"   -> "cleanupSageMakerResources"
       [] a = "get_upload_url"      -> "getPresignedUploadUrl"]

\* C9 as amended: a request whose body is an object with none of the seven
\* actions gets 400 "Invalid action" and no operation is invoked; a request
\* with a known action invokes exactly the operation of that action when its
\* data is an object, and no operation at all when its data is null or missing
\* (the destructuring throws first, and the response is 500); no request
\* invokes another operation; whatever is thrown, by the operation or while the
\* payload is read, gets 500 with an error and details, and nothing else does.
C9_Router ==
  /\ rpc \in {"op", "responded"} =>
       /\ Len(rInvoked) <= 1
       /\ rInvoked # <<>> => (rAction \in KnownActions /\ rInvoked = <<KnownOps[rAction]>>)
  /\ rpc = "op" => rInvoked # <<>>
  /\ rpc = "responded" =>
       LET r == rResp[1]
       IN  /\ (rBody = "object" /\ rAction \notin KnownActions) =>
                (r.status = 400 /\ r.error = "Invalid action" /\ rInvoked = <<>>)
           /\ (rAction \in KnownActions /\ rData = "object") =>
                rInvoked = <<KnownOps[rAction]>>
           /\ (rAction \in KnownActions /\ rData # "object") =>
                (rInvoked = <<>> /\ r.status = 500 /\ r.thrown = "TypeError")
           /\ rBody # "object" => (rInvoked = <<>> /\ r.status = 500)
           /\ r.thrown # "none" <=> r.status = 500
           /\ r.status = 500 => (r.error # "" /\ r.details)
           /\ r.status \in {200, 400, 500}

\* a known action whose data is missing: 500 and nothing invoked; and a known
\* action with data whose operation rejects: 500 after exactly one invocation
C9_Witness ==
  /\ rpc = "responded" /\ rAction = "deploy_model" /\ rData = "object"
  /\ rInvoked = <<"deployBestModel">> /\ rResp[1].status = 500

\* C10: whatever the interleaving of the requests, a configuration is stored
\* in the memo at most once, and once the memo is not null it never changes.
C10_CacheWrittenOnce ==
  [][ /\ cacheWrites' <= 1
      /\ cachedConfig # NullCfg => cachedConfig' = cachedConfig ]_vars


====
